---- MODULE Spec2Model ----
(***************************************************************************)
(* State-machine model of promlinter (src/main.go): main/run validate the  *)
(* -url flag, list the rules of a Prometheus server, parse every rule's    *)
(* query, and ask the server (memoised in ruleLinter.metrics) whether each *)
(* metric the query names has any series.                                  *)
(***************************************************************************)
EXTENDS Integers, Sequences, FiniteSets, TLC

VARIABLES help, promURL, groups, series, pc, metrics, rules, cur, pending,
          stderr, exitCode, calls, checks, stale,
          expr, stack, found, ret, down

vars == <<help, promURL, groups, series, pc, metrics, rules, cur, pending,
          stderr, exitCode, calls, checks, stale,
          expr, stack, found, ret, down>>

\* ------------------------------------------------------------------ bounds
\* Largest number of rule groups in the server's answer to Rules().
MaxGroups == 2

\* Largest number of nodes of an expression tree handed to the tree walk.
MaxNodes == 4

\* ------------------------------------------------------- generic helpers
Range(s) == {s[i] : i \in DOMAIN s}

\* All orders in which the keys of a Go map can be ranged over.
Perms(S) == {p \in [1..Cardinality(S) -> S] : Range(p) = S}

SeqsUpTo(S, n) == UNION {[1..k -> S] : k \in 0..n}

RECURSIVE Flatten(_)
Flatten(ss) == IF ss = <<>> THEN <<>> ELSE Head(ss) \o Flatten(Tail(ss))

\* ------------------------------------------------------------ net/url
\* A URL is the sequence of its characters.
Letters == {"f", "t", "p", "h", "s", "x", "H", "T", "P"}
SchemePunct == {"1", "+", "-", "."}

ToLower(c) == CASE c = "H" -> "h" [] c = "T" -> "t" [] c = "P" -> "p" [] OTHER -> c

LowerAll(s) == [i \in DOMAIN s |-> ToLower(s[i])]

\* url.getScheme: scan up to the first ':'; a digit or punctuation in first
\* position, or any other character, means "no scheme"; a leading ':' is an
\* error ("missing protocol scheme").
RECURSIVE getSchemeFrom(_, _)
getSchemeFrom(rawurl, i) ==
    IF i > Len(rawurl) THEN [err |-> FALSE, scheme |-> <<>>]
    ELSE LET c == rawurl[i] IN
         CASE c \in Letters -> getSchemeFrom(rawurl, i + 1)
           [] c \in SchemePunct ->
                IF i = 1 THEN [err |-> FALSE, scheme |-> <<>>]
                ELSE getSchemeFrom(rawurl, i + 1)
           [] c = ":" ->
                IF i = 1 THEN [err |-> TRUE, scheme |-> <<>>]
                ELSE [err |-> FALSE, scheme |-> SubSeq(rawurl, 1, i - 1)]
           [] OTHER -> [err |-> FALSE, scheme |-> <<>>]

\* url.Parse, as far as run() looks at its result: the error and u.Scheme
\* (lower-cased by the parser).
urlParse(rawurl) ==
    LET s == getSchemeFrom(rawurl, 1)
    IN  [err |-> s.err, Scheme |-> LowerAll(s.scheme)]

HTTP == <<"h", "t", "t", "p">>
HTTPS == <<"h", "t", "t", "p", "s">>

\* The -url values the model starts from.
URLs == { <<>>,
          <<"f", "t", "p", ":", "/", "/", "x">>,
          <<":", "/", "/", "x">>,
          <<"x">>,
          <<"h", "t", "t", "p">>,
          <<"h", "t", "t", "p", "x", ":", "/", "/", "x">>,
          <<"h", "t", "t", "p", ":", "/", "/", "x">>,
          <<"H", "T", "T", "P", "s", ":", "/", "/", "x">> }

\* Variant: the scheme test of lines 142-144 is missing.
ConfigErrorNoScheme(url) ==
    IF url = <<>> THEN "Missing -url parameter"
    ELSE IF urlParse(url).err THEN "Invalid URL"
    ELSE ""

\* run(), lines 135-144: the configuration error it returns, or "" if the
\* address is accepted.
ConfigError(url) ==
    IF url = <<>> THEN "Missing -url parameter"
    ELSE LET u == urlParse(url) IN
         IF u.err THEN "Invalid URL"
         ELSE IF u.Scheme # HTTP /\ u.Scheme # HTTPS THEN "Invalid URL scheme"
         ELSE ""

\* api.NewClient fails only when url.Parse of the address fails.
newRuleLinterFails(url) == urlParse(url).err

\* ------------------------------------------------------------ promql
Names == {"up", "http_requests_total"}

Node(t, n, ch) == [type |-> t, name |-> n, children |-> ch]
VectorSelector(n) == Node("VectorSelector", n, <<>>)
MatrixSelector(n) == Node("MatrixSelector", n, <<>>)
NumberLiteral == Node("NumberLiteral", "", <<>>)
BinaryExpr(l, r) == Node("BinaryExpr", "", <<l, r>>)
Call(args) == Node("Call", "", args)
AggregateExpr(e) == Node("AggregateExpr", "", <<e>>)
SubqueryExpr(e) == Node("SubqueryExpr", "", <<e>>)

QUp == "up == 0"
QRate == "rate(http_requests_total[5m])"
QRatio == "sum(up) / rate(http_requests_total[5m])"
QBad == "rate("
QMatcher == "{__name__=\"up\"} + up"

Queries == {QUp, QRate, QRatio, QBad, QMatcher}

\* promql.ParseExpr on the query texts of the model.
ParseExpr(q) ==
    CASE q = QUp -> [err |-> FALSE, expr |-> BinaryExpr(VectorSelector("up"), NumberLiteral)]
      [] q = QRate -> [err |-> FALSE, expr |-> Call(<<MatrixSelector("http_requests_total")>>)]
      [] q = QRatio ->
           [err |-> FALSE,
            expr |-> BinaryExpr(AggregateExpr(VectorSelector("up")),
                                Call(<<MatrixSelector("http_requests_total")>>))]
      [] q = QMatcher ->
           [err |-> FALSE, expr |-> BinaryExpr(VectorSelector(""), VectorSelector("up"))]
      [] OTHER -> [err |-> TRUE, expr |-> NumberLiteral]

\* Variant: the MatrixSelector case of lines 91-95 is missing.
visitVectorOnly(node) ==
    IF node.type = "VectorSelector" /\ node.name # "" THEN {node.name} ELSE {}

\* The callback getMetrics hands to promql.Inspect: the names one node adds.
visit(node) ==
    IF node.type \in {"VectorSelector", "MatrixSelector"} /\ node.name # ""
    THEN {node.name} ELSE {}

\* promql.Inspect: the callback is applied to the node and to every descendant.
RECURSIVE Inspect(_)
Inspect(node) ==
    visit(node) \cup UNION {Inspect(node.children[i]) : i \in DOMAIN node.children}

\* ruleLinter.getMetrics: the parse error, or the key set of the local map.
\* The returned slice is one of Perms(names).
getMetrics(rule) ==
    LET p == ParseExpr(rule)
    IN  IF p.err THEN [err |-> TRUE, names |-> {}]
        ELSE [err |-> FALSE, names |-> Inspect(p.expr)]

\* ------------------------------------------------------------ rules API
Rule(k, q) == [kind |-> k, query |-> q]

GroupUniverse ==
    { <<Rule("recording", QRate), Rule("alerting", QUp)>>,
      <<Rule("alerting", QBad), Rule("other", QUp), Rule("recording", QMatcher)>>,
      <<Rule("alerting", QRatio)>> }

\* ruleLinter.getRules, lines 62-74: the queries of the recording and alerting
\* rules, group after group.
RuleQueries(group) ==
    LET keep == SelectSeq(group, LAMBDA r : r.kind \in {"recording", "alerting"})
    IN  [i \in DOMAIN keep |-> keep[i].query]

getRules(gs) == Flatten([g \in DOMAIN gs |-> RuleQueries(gs[g])])

\* ------------------------------------------------------------ output lines
Line(k, r, m) == [kind |-> k, rule |-> r, metric |-> m]

\* A request to the server, logged when it is sent; res is "pending" until the
\* call returns.
Request(op, name, rule) == [op |-> op, name |-> name, rule |-> rule, res |-> "pending"]

\* The log after the request sent last returned with `res`.
Returned(log, res) == [log EXCEPT ![Len(log)].res = res]

\* ------------------------------------------------------------ state machine
Start ==
    /\ help \in BOOLEAN
    /\ promURL \in URLs
    /\ groups \in SeqsUpTo(GroupUniverse, MaxGroups)
    /\ series \in SUBSET Names
    /\ pc = "main"
    /\ metrics = <<>>
    /\ rules = <<>>
    /\ cur = 0
    /\ pending = <<>>
    /\ stderr = <<>>
    /\ exitCode = -1
    /\ calls = <<>>
    /\ checks = <<>>
    /\ stale = FALSE
    /\ expr = NumberLiteral
    /\ stack = <<>>
    /\ found = <<>>
    /\ ret = <<>>

\* Any Series call may fail (SeriesFail); `down` plays no part.
Init == Start /\ down = {}

Inputs == <<help, promURL, groups, down>>

\* The locals of one getMetrics call followed step by step (see InitMetrics).
walk == <<expr, stack, found, ret>>

\* main(), lines 122-126: -help prints the usage and exits 0.
Usage ==
    /\ pc = "main" /\ help
    /\ stderr' = Append(stderr, Line("usage", "", ""))
    /\ exitCode' = 0
    /\ pc' = "done"
    /\ UNCHANGED <<Inputs, walk, series, metrics, rules, cur, pending, calls, checks, stale>>

\* run(), lines 135-149, and main(), lines 128-131: a rejected address ends the
\* process with one line and status 2.
RunConfigError ==
    /\ pc = "main" /\ ~help
    /\ ConfigError(promURL) # "" \/ newRuleLinterFails(promURL)
    /\ stderr' = Append(stderr, Line("configError", "", ""))
    /\ exitCode' = 2
    /\ pc' = "done"
    /\ UNCHANGED <<Inputs, walk, series, metrics, rules, cur, pending, calls, checks, stale>>

\* run(), lines 146-150: newRuleLinter makes the empty cache, getRules sends
\* the Rules request.
RunStart ==
    /\ pc = "main" /\ ~help
    /\ ConfigError(promURL) = "" /\ ~newRuleLinterFails(promURL)
    /\ metrics' = <<>>
    /\ calls' = Append(calls, Request("Rules", "", 0))
    /\ pc' = "getRules"
    /\ UNCHANGED <<Inputs, walk, series, rules, cur, pending, stderr, exitCode, checks, stale>>

\* Variant: the error of the Rules call is dropped and the empty result used.
RulesFailIgnored ==
    /\ pc = "getRules"
    /\ calls' = Returned(calls, "error")
    /\ rules' = <<>>
    /\ pc' = "loop"
    /\ UNCHANGED <<Inputs, walk, series, metrics, cur, pending, stderr, exitCode, checks, stale>>

\* getRules, lines 57-60, run() 151-153, main() 128-131: the Rules call failed.
RulesFail ==
    /\ pc = "getRules"
    /\ calls' = Returned(calls, "error")
    /\ stderr' = Append(stderr, Line("rulesError", "", ""))
    /\ exitCode' = 2
    /\ pc' = "done"
    /\ UNCHANGED <<Inputs, walk, series, metrics, rules, cur, pending, checks, stale>>

\* getRules, lines 62-74: the Rules call answered.
RulesOk ==
    /\ pc = "getRules"
    /\ calls' = Returned(calls, "ok")
    /\ rules' = getRules(groups)
    /\ pc' = "loop"
    /\ UNCHANGED <<Inputs, walk, series, metrics, cur, pending, stderr, exitCode, checks, stale>>

\* Variant: `return err` in place of `continue` at line 158.
GetMetricsErrorAbort ==
    /\ pc = "loop" /\ pending = <<>> /\ cur < Len(rules)
    /\ getMetrics(rules[cur + 1]).err
    /\ cur' = cur + 1
    /\ stderr' = Append(stderr, Line("parseError", "", ""))
    /\ exitCode' = 2
    /\ pc' = "done"
    /\ UNCHANGED <<Inputs, walk, series, metrics, rules, pending, calls, checks, stale>>

\* run(), lines 154-159: the next rule does not parse; the error is printed
\* and the rule is skipped.  Line 157 prints the parser's error as it is: a
\* position in the query and a cause, neither the query nor the rule's name.
GetMetricsError ==
    /\ pc = "loop" /\ pending = <<>> /\ cur < Len(rules)
    /\ getMetrics(rules[cur + 1]).err
    /\ cur' = cur + 1
    /\ stderr' = Append(stderr, Line("parseError", "", ""))
    /\ UNCHANGED <<Inputs, walk, series, pc, metrics, rules, pending, exitCode, calls, checks, stale>>

\* Variant: the next rule is taken up while metrics of the current one are
\* still waiting to be checked.
GetMetricsOkEager ==
    /\ pc = "loop" /\ cur < Len(rules)
    /\ ~getMetrics(rules[cur + 1]).err
    /\ cur' = cur + 1
    /\ \E order \in Perms(getMetrics(rules[cur + 1]).names) : pending' = pending \o order
    /\ UNCHANGED <<Inputs, walk, series, pc, metrics, rules, stderr, exitCode, calls, checks, stale>>

\* run(), lines 154-160: the next rule parses; its metrics are ranged over in
\* the order the map iteration of getMetrics (lines 101-105) produced.
GetMetricsOk ==
    /\ pc = "loop" /\ pending = <<>> /\ cur < Len(rules)
    /\ ~getMetrics(rules[cur + 1]).err
    /\ cur' = cur + 1
    /\ \E order \in Perms(getMetrics(rules[cur + 1]).names) : pending' = order
    /\ UNCHANGED <<Inputs, walk, series, pc, metrics, rules, stderr, exitCode, calls, checks, stale>>

\* Variant: `if found` in place of `if !found` at line 166.
ReportInverted(called, res) ==
    LET metric == Head(pending) IN
    /\ stderr' = CASE res = "error" -> Append(stderr, Line("metricError", "", metric))
                   [] res = "true" -> Append(stderr, Line("finding", rules[cur], metric))
                   [] OTHER -> stderr
    /\ checks' = Append(checks, [rule |-> cur, metric |-> metric, called |-> called, res |-> res])
    /\ stale' = (stale \/ (~called /\ (res = "true") # (metric \in series)))
    /\ pending' = Tail(pending)

\* run(), lines 161-169: what the loop body does with the answer of
\* metricExists for the metric at the head of pending.
Report(called, res) ==
    LET metric == Head(pending) IN
    /\ stderr' = CASE res = "error" -> Append(stderr, Line("metricError", "", metric))
                   [] res = "false" -> Append(stderr, Line("finding", rules[cur], metric))
                   [] OTHER -> stderr
    /\ checks' = Append(checks, [rule |-> cur, metric |-> metric, called |-> called, res |-> res])
    /\ stale' = (stale \/ (~called /\ (res = "true") # (metric \in series)))
    /\ pending' = Tail(pending)

Verdict(b) == IF b THEN "true" ELSE "false"

\* Variant: the cache is never consulted.
CachedNever(cache, name) == FALSE

\* Variant: `if !r.metrics[name]` in place of `if !ok`, so that a cached
\* "missing" verdict counts as absent.
CachedOnlyTrue(cache, name) == name \in DOMAIN cache /\ cache[name]

\* _, ok := r.metrics[name], line 109.
Cached(cache, name) == name \in DOMAIN cache

\* r.metrics[name], line 117: reading a Go map gives false for an absent key.
Lookup(cache, name) == IF name \in DOMAIN cache THEN cache[name] ELSE FALSE

\* metricExists, lines 109-110 and 117: the name is in the cache.
MetricExistsCached ==
    /\ pc = "loop" /\ pending # <<>>
    /\ Cached(metrics, Head(pending))
    /\ Report(FALSE, Verdict(Lookup(metrics, Head(pending))))
    /\ UNCHANGED <<Inputs, walk, series, pc, metrics, rules, cur, exitCode, calls>>

\* metricExists, lines 109-111: the name is not in the cache, the Series
\* request is sent.
MetricExistsCall ==
    /\ pc = "loop" /\ pending # <<>>
    /\ ~Cached(metrics, Head(pending))
    /\ calls' = Append(calls, Request("Series", Head(pending), cur))
    /\ pc' = "series"
    /\ UNCHANGED <<Inputs, walk, series, metrics, rules, cur, pending, stderr, exitCode, checks, stale>>

\* Variant: a failed check is recorded as "missing".
AfterErrorFalse(cache, name) ==
    [n \in DOMAIN cache \cup {name} |-> IF n = name THEN FALSE ELSE cache[n]]

\* metricExists, lines 112-114: the early return leaves r.metrics as it was.
AfterError(cache, name) == cache

\* Variant: `break` in place of `continue` at line 164.
SeriesFailBreak ==
    /\ pc = "series"
    /\ calls' = Returned(calls, "error")
    /\ metrics' = AfterError(metrics, Head(pending))
    /\ stderr' = Append(stderr, Line("metricError", "", Head(pending)))
    /\ checks' = Append(checks, [rule |-> cur, metric |-> Head(pending), called |-> TRUE,
                                  res |-> "error"])
    /\ pending' = <<>>
    /\ pc' = "loop"
    /\ UNCHANGED <<Inputs, walk, series, rules, cur, exitCode, stale>>

\* Variant: a failed check is tried again at once.
SeriesFailRetry ==
    /\ pc = "series"
    /\ calls' = Returned(calls, "error")
    /\ metrics' = AfterError(metrics, Head(pending))
    /\ stderr' = Append(stderr, Line("metricError", "", Head(pending)))
    /\ checks' = Append(checks, [rule |-> cur, metric |-> Head(pending), called |-> TRUE,
                                  res |-> "error"])
    /\ pc' = "loop"
    /\ UNCHANGED <<Inputs, walk, series, rules, cur, pending, exitCode, stale>>

\* metricExists, lines 112-114: the Series request failed.
SeriesFail ==
    /\ pc = "series"
    /\ calls' = Returned(calls, "error")
    /\ metrics' = AfterError(metrics, Head(pending))
    /\ Report(TRUE, "error")
    /\ pc' = "loop"
    /\ UNCHANGED <<Inputs, walk, series, rules, cur, exitCode>>

\* Variant: the write allocates a new map holding only the new entry.
StoreFresh(cache, name, lset) == [n \in {name} |-> lset # {}]

\* Variant: `len(lset) == 0` in place of `len(lset) > 0`.
StoreInverted(cache, name, lset) ==
    [n \in DOMAIN cache \cup {name} |-> IF n = name THEN lset = {} ELSE cache[n]]

\* r.metrics[name] = len(lset) > 0, line 115.
Store(cache, name, lset) ==
    [n \in DOMAIN cache \cup {name} |-> IF n = name THEN lset # {} ELSE cache[n]]

\* The label sets the server returns for the matcher `name`.
Lset(name) == IF name \in series THEN {name} ELSE {}

\* metricExists, lines 115-117: the Series request answered.
SeriesOk ==
    /\ pc = "series"
    /\ metrics' = Store(metrics, Head(pending), Lset(Head(pending)))
    /\ calls' = Returned(calls, Verdict(Lset(Head(pending)) # {}))
    /\ Report(TRUE, Verdict(Lookup(metrics', Head(pending))))
    /\ pc' = "loop"
    /\ UNCHANGED <<Inputs, walk, series, rules, cur, exitCode>>

\* Variant: a run that printed a finding or an error ends with status 1.
RunEndStrict ==
    /\ pc = "loop" /\ pending = <<>> /\ cur = Len(rules)
    /\ exitCode' = IF stderr = <<>> THEN 0 ELSE 1
    /\ pc' = "done"
    /\ UNCHANGED <<Inputs, walk, series, metrics, rules, cur, pending, stderr, calls, checks, stale>>

\* run(), lines 170-172: every rule was visited; run returns nil and main
\* returns.
RunEnd ==
    /\ pc = "loop" /\ pending = <<>> /\ cur = Len(rules)
    /\ exitCode' = 0
    /\ pc' = "done"
    /\ UNCHANGED <<Inputs, walk, series, metrics, rules, cur, pending, stderr, calls, checks, stale>>

\* The server's index changes while the linter runs: a metric gets its first
\* series or loses its last one.
BackendChange ==
    /\ pc \in {"getRules", "loop", "series"}
    /\ \E n \in Names : series' = IF n \in series THEN series \ {n} ELSE series \cup {n}
    /\ UNCHANGED <<Inputs, walk, pc, metrics, rules, cur, pending, stderr, exitCode, calls, checks, stale>>

Next ==
    \/ Usage
    \/ RunConfigError
    \/ RunStart
    \/ RulesFail
    \/ RulesOk
    \/ GetMetricsError
    \/ GetMetricsOk
    \/ MetricExistsCached
    \/ MetricExistsCall
    \/ SeriesFail
    \/ SeriesOk
    \/ RunEnd
    \/ BackendChange

Spec == Init /\ [][Next]_vars

\* The steps of the process itself.  main runs on one goroutine that nothing
\* suspends, and a call to the server that returns lets it go on, so a step
\* of the process that stays possible is eventually taken.
Program ==
    \/ Usage \/ RunConfigError \/ RunStart \/ RulesFail \/ RulesOk
    \/ GetMetricsError \/ GetMetricsOk \/ MetricExistsCached \/ MetricExistsCall
    \/ SeriesFail \/ SeriesOk \/ RunEnd

FairSpec == Init /\ [][Next]_vars /\ WF_vars(Program)

\* ------------------------------------------- getMetrics, followed step by step
\* The expression trees promql.ParseExpr can hand to getMetrics, by size.
Leaves ==
    { VectorSelector("up"), VectorSelector(""),
      MatrixSelector("up"), MatrixSelector("http_requests_total"), MatrixSelector(""),
      NumberLiteral }

RECURSIVE TreesOfSize(_)
TreesOfSize(n) ==
    IF n = 1 THEN Leaves
    ELSE {AggregateExpr(t) : t \in TreesOfSize(n - 1)}
         \cup {SubqueryExpr(t) : t \in TreesOfSize(n - 1)}
         \cup {Call(<<t>>) : t \in TreesOfSize(n - 1)}
         \cup UNION {{BinaryExpr(l, r) : l \in TreesOfSize(a), r \in TreesOfSize(n - 1 - a)} :
                        a \in 1..(n - 2)}

Trees == UNION {TreesOfSize(n) : n \in 1..MaxNodes}

\* The state of run() and of the server, which getMetrics does not touch.
outer == <<help, promURL, groups, down, series, metrics, rules, cur, pending,
           stderr, exitCode, calls, checks, stale>>

\* getMetrics after line 83: the tree is parsed, the local map is empty, the
\* walk is about to start at the root.
InitMetrics ==
    /\ help = FALSE /\ promURL = <<>> /\ groups = <<>> /\ series = {} /\ down = {}
    /\ metrics = <<>> /\ rules = <<>> /\ cur = 0 /\ pending = <<>>
    /\ stderr = <<>> /\ exitCode = -1 /\ calls = <<>> /\ checks = <<>>
    /\ stale = FALSE
    /\ pc = "inspect"
    /\ expr \in Trees
    /\ stack = <<expr>>
    /\ found = <<>>
    /\ ret = <<>>

\* promql.Walk: the nodes the walk goes on to below a node.
Children(node) == node.children

\* metrics[n.Name] = struct{}{}, lines 90 and 95.
MapSet(m, keys) == [k \in DOMAIN m \cup keys |-> <<>>]

\* Variant: the callback appends the name to the result slice instead of
\* setting a key of the map.
WalkVisitAppend ==
    /\ pc = "inspect" /\ stack # <<>>
    /\ ret' = ret \o (IF visit(Head(stack)) = {} THEN <<>> ELSE <<Head(stack).name>>)
    /\ stack' = Children(Head(stack)) \o Tail(stack)
    /\ UNCHANGED <<outer, pc, expr, found>>

\* promql.Inspect, lines 84-99: the callback runs on the next node of the
\* walk, which then descends into the node's children.
WalkVisit ==
    /\ pc = "inspect" /\ stack # <<>>
    /\ found' = MapSet(found, visit(Head(stack)))
    /\ stack' = Children(Head(stack)) \o Tail(stack)
    /\ UNCHANGED <<outer, pc, expr, ret>>

\* getMetrics, lines 101-105: the keys of the map are appended to ret in the
\* order the range statement yields them.
RangeKeys ==
    /\ pc = "inspect" /\ stack = <<>>
    /\ \E order \in Perms(DOMAIN found) : ret' = ret \o order
    /\ pc' = "returned"
    /\ UNCHANGED <<outer, expr, stack, found>>

NextMetrics ==
    \/ WalkVisit
    \/ RangeKeys

SpecMetrics == InitMetrics /\ [][NextMetrics]_vars

\* --------------------------------------------- getRules, followed step by step
\* The rules and groups a Rules() answer is made of.
RuleUniverse ==
    { Rule("recording", QUp), Rule("recording", QRate),
      Rule("alerting", QUp), Rule("alerting", QRate),
      Rule("other", QMatcher) }

RuleGroups ==
    {<<>>} \cup {<<a>> : a \in RuleUniverse} \cup {<<a, b>> : a, b \in RuleUniverse}

\* getRules at line 62: the Rules call has answered, queries is nil.
InitRules ==
    /\ help = FALSE /\ promURL = <<>> /\ series = {} /\ down = {}
    /\ metrics = <<>> /\ pending = <<>>
    /\ stderr = <<>> /\ exitCode = -1 /\ calls = <<>> /\ checks = <<>>
    /\ stale = FALSE
    /\ expr = NumberLiteral /\ stack = <<>> /\ found = <<>> /\ ret = <<>>
    /\ pc = "listing"
    /\ groups \in SeqsUpTo(RuleGroups, MaxGroups)
    /\ rules = <<>>
    /\ cur = 0

\* Variant: the AlertingRule case of lines 68-69 is missing.
AppendQueriesRecordingOnly(queries, group) ==
    queries \o [i \in DOMAIN SelectSeq(group, LAMBDA r : r.kind = "recording") |->
                   SelectSeq(group, LAMBDA r : r.kind = "recording")[i].query]

\* getRules, lines 64-71: the inner loop over the rules of one group.
RECURSIVE AppendQueries(_, _)
AppendQueries(queries, group) ==
    IF group = <<>> THEN queries
    ELSE LET v == Head(group) IN
         AppendQueries(CASE v.kind = "recording" -> Append(queries, v.query)
                         [] v.kind = "alerting" -> Append(queries, v.query)
                         [] OTHER -> queries,
                       Tail(group))

\* getRules, lines 63-72: one turn of the loop over the groups.
RangeGroup ==
    /\ pc = "listing" /\ cur < Len(groups)
    /\ rules' = AppendQueries(rules, groups[cur + 1])
    /\ cur' = cur + 1
    /\ UNCHANGED <<Inputs, walk, series, pc, metrics, pending, stderr, exitCode, calls,
                   checks, stale>>

\* getRules, line 74: return queries, nil.
RulesReturn ==
    /\ pc = "listing" /\ cur = Len(groups)
    /\ pc' = "listed"
    /\ UNCHANGED <<Inputs, walk, series, metrics, rules, cur, pending, stderr, exitCode,
                   calls, checks, stale>>

NextRules ==
    \/ RangeGroup
    \/ RulesReturn

SpecRules == InitRules /\ [][NextRules]_vars

\* ------------------------------------------------- runs on an unchanged server
\* The server's index does not change during the run, the Rules call is
\* answered, and a Series call fails exactly for the names in `down`.
InitSteady == Start /\ down \in SUBSET Names

SeriesFailSteady == pc = "series" /\ Head(pending) \in down /\ SeriesFail

SeriesOkSteady == pc = "series" /\ Head(pending) \notin down /\ SeriesOk

NextSteady ==
    \/ Usage
    \/ RunConfigError
    \/ RunStart
    \/ RulesOk
    \/ GetMetricsError
    \/ GetMetricsOk
    \/ MetricExistsCached
    \/ MetricExistsCall
    \/ SeriesFailSteady
    \/ SeriesOkSteady
    \/ RunEnd

SpecSteady == InitSteady /\ [][NextSteady]_vars

\* ================================================================ properties
Last(s) == s[Len(s)]

Max(S) == CHOOSE m \in S : \A x \in S : x <= m

\* The Series requests sent for metric n, as positions in the request log.
SeriesCallsFor(n) == {i \in DOMAIN calls : calls[i].op = "Series" /\ calls[i].name = n}

\* The metricExists invocations for metric n, as positions in the log.
ChecksFor(n) == {i \in DOMAIN checks : checks[i].metric = n}

\* The rules of the listing whose query names metric n.
Refs(n) == {i \in DOMAIN rules : n \in getMetrics(rules[i]).names}

\* A metricExists invocation that asked the server and got an answer.
Resolved(c) == c.called /\ c.res # "error"

\* C1 as stated: whatever the outcomes of the backend calls, at most one Series
\* call is sent per metric name, and a name the rules reference at least twice
\* gets exactly one.
C1_AtMostOneCall ==
    \A n \in Names :
        /\ Cardinality(SeriesCallsFor(n)) <= 1
        /\ (pc = "done" /\ Cardinality(Refs(n)) >= 2) => Cardinality(SeriesCallsFor(n)) = 1

\* C1 amended: a Series call for a name is sent only when every earlier call
\* for that name failed (so at most one call per name succeeds, and none
\* follows it); a name the rules reference at least twice gets exactly one call
\* when no call for it fails.
C1_OneCallUnlessFailed ==
    \A n \in Names :
        /\ \A i, j \in SeriesCallsFor(n) : i < j => calls[i].res = "error"
        /\ ( /\ pc = "done"
             /\ Cardinality(Refs(n)) >= 2
             /\ \A i \in SeriesCallsFor(n) : calls[i].res # "error" )
           => Cardinality(SeriesCallsFor(n)) = 1

\* A finished run in which two rules named a metric and one call was sent.
C1_Witness ==
    \E n \in Names :
        /\ pc = "done"
        /\ Cardinality(Refs(n)) >= 2
        /\ Cardinality(ChecksFor(n)) >= 2
        /\ Cardinality(SeriesCallsFor(n)) = 1

\* C2: after a metricExists invocation got an answer from the server for a
\* name, every later invocation for that name sends no request and returns the
\* verdict of that first answer, whatever the server's index says by then.
C2_ResolvedIsFinal ==
    /\ \A i, j \in DOMAIN checks :
          (i < j /\ checks[i].metric = checks[j].metric /\ Resolved(checks[i]))
             => ~checks[j].called /\ checks[j].res = checks[i].res
    /\ pc = "series" => \A i \in ChecksFor(Head(pending)) : ~Resolved(checks[i])

\* A cached verdict was returned although the server's index said otherwise.
C2_Witness ==
    \E i, j \in DOMAIN checks :
        /\ i < j /\ checks[i].metric = checks[j].metric /\ Resolved(checks[i])
        /\ ~checks[j].called
        /\ stale

\* C3: a failed Series call makes metricExists return an error and leaves the
\* cache as it was, without an entry for the name; the next invocation for the
\* name sends a new request, and an answered request writes its verdict.
C3_FailureNotCached ==
    [][checks' # checks =>
        LET c == Last(checks')
            prev == ChecksFor(c.metric)
        IN  /\ c.called => ((Last(calls').res = "error") <=> (c.res = "error"))
            /\ c.res = "error" => (c.called /\ metrics' = metrics /\ c.metric \notin DOMAIN metrics')
            /\ (prev # {} /\ checks[Max(prev)].res = "error") => c.called
            /\ Resolved(c) => ( /\ c.metric \in DOMAIN metrics'
                                /\ metrics'[c.metric] = (c.res = "true")
                                /\ (c.metric \in series) = (c.res = "true") )]_vars

\* A name whose first check failed and whose next check asked the server
\* again and cached the answer.
C3_Witness ==
    \E i, j \in DOMAIN checks :
        /\ i < j /\ checks[i].metric = checks[j].metric
        /\ \A k \in ChecksFor(checks[i].metric) : k <= i \/ k >= j
        /\ checks[i].res = "error"
        /\ Resolved(checks[j])
        /\ checks[j].metric \in DOMAIN metrics

\* The lines of one kind on the diagnostic stream, in order.
Lines(kind) == SelectSeq(stderr, LAMBDA l : l.kind = kind)

\* The metricExists invocations with one result, in order.
ChecksWith(res) == SelectSeq(checks, LAMBDA c : c.res = res)

\* The listed rules whose query does not parse.
Malformed == {i \in DOMAIN rules : getMetrics(rules[i]).err}

\* The metrics getMetrics extracts from rule i.
MetricsOf(i) == getMetrics(rules[i]).names

Checked(i, m) == \E k \in DOMAIN checks : checks[k].rule = i /\ checks[k].metric = m

\* C4: the findings printed are, in order, one line (rule text, metric) per
\* metricExists invocation that returned "does not exist" without error; every
\* invocation is for a metric extracted from a rule that parsed, and no (rule,
\* metric) pair is checked twice.  Hence no finding for a metric that exists,
\* whose check failed, or for a rule that failed to parse.
C4_FindingsExact ==
    /\ Len(Lines("finding")) = Len(ChecksWith("false"))
    /\ \A i \in DOMAIN Lines("finding") :
          Lines("finding")[i] =
              Line("finding", rules[ChecksWith("false")[i].rule], ChecksWith("false")[i].metric)
    /\ \A k \in DOMAIN checks :
          /\ checks[k].rule \in DOMAIN rules \ Malformed
          /\ checks[k].metric \in MetricsOf(checks[k].rule)
    /\ \A j, k \in DOMAIN checks :
          (checks[j].rule = checks[k].rule /\ checks[j].metric = checks[k].metric) => j = k

\* A finished run with one finding per rule for a missing metric that two
\* rules name, beside a metric that exists and a check that failed.
C4_Witness ==
    /\ pc = "done"
    /\ \E i, j \in DOMAIN Lines("finding") :
          i < j /\ Lines("finding")[i].metric = Lines("finding")[j].metric
                /\ Lines("finding")[i].rule # Lines("finding")[j].rule
    /\ ChecksWith("true") # <<>>
    /\ ChecksWith("error") # <<>>

\* C5: a rule that fails to parse gets one parse-error line and nothing else:
\* the step that skips it changes only the position in the listing and the
\* diagnostic stream, no request, check or finding is made for it, and the run
\* goes on to check every metric of every other rule and to end normally.
C5_ParseErrorSkipsRule ==
    /\ [][(cur' # cur /\ cur' \in Malformed) =>
            /\ stderr' = Append(stderr, Line("parseError", "", ""))
            /\ UNCHANGED <<pc, metrics, rules, pending, exitCode, calls, checks, series>>]_vars
    /\ [](/\ Len(Lines("parseError")) = Cardinality({i \in Malformed : i <= cur})
          /\ \A i \in Malformed :
                /\ \A k \in DOMAIN calls : calls[k].rule # i
                /\ \A k \in DOMAIN checks : checks[k].rule # i
                /\ \A k \in DOMAIN stderr : stderr[k].kind = "finding" => stderr[k].rule # rules[i]
          /\ (pc = "done" /\ Malformed # {}) =>
                /\ exitCode = 0 /\ cur = Len(rules)
                /\ \A i \in DOMAIN rules \ Malformed : \A m \in MetricsOf(i) : Checked(i, m))

\* A finished run over a listing with a malformed rule between two rules that
\* were checked.
C5_Witness ==
    /\ pc = "done"
    /\ \E i \in Malformed :
          \E a, b \in DOMAIN checks : checks[a].rule < i /\ checks[b].rule > i

\* C6: a failed existence check is printed as one error line naming the
\* metric, and the run goes on: when it ends, every metric of the rule the
\* failure fell in and every metric of every later rule has been passed to
\* metricExists.
C6_CheckFailureContinues ==
    /\ Len(Lines("metricError")) = Len(ChecksWith("error"))
    /\ \A i \in DOMAIN Lines("metricError") :
          Lines("metricError")[i] = Line("metricError", "", ChecksWith("error")[i].metric)
    /\ pc = "done" =>
          \A k \in DOMAIN checks : checks[k].res = "error" =>
              \A i \in DOMAIN rules \ Malformed :
                  i >= checks[k].rule => \A m \in MetricsOf(i) : Checked(i, m)

\* A finished run in which a check failed and was followed by a check of
\* another metric of the same rule and by a check for a later rule.
C6_Witness ==
    /\ pc = "done"
    /\ \E k \in DOMAIN checks :
          /\ checks[k].res = "error"
          /\ k < Len(checks) /\ checks[k + 1].rule = checks[k].rule
          /\ \E j \in DOMAIN checks : checks[j].rule > checks[k].rule

\* The address starts with the scheme `sch` (in any case) and a colon.
HasScheme(url, sch) ==
    /\ Len(url) > Len(sch)
    /\ LowerAll(SubSeq(url, 1, Len(sch))) = sch
    /\ url[Len(sch) + 1] = ":"

\* The address is missing or is not an http or https URL.
BadAddress == promURL = <<>> \/ ~(HasScheme(promURL, HTTP) \/ HasScheme(promURL, HTTPS))

\* C7: with a missing or non-http(s) address the run sends no request at all
\* and ends with one configuration-error line and status 2.
C7_BadAddressNoCalls ==
    (~help /\ BadAddress) =>
        /\ calls = <<>> /\ checks = <<>>
        /\ pc \in {"main", "done"}
        /\ pc = "done" => (exitCode = 2 /\ stderr = <<Line("configError", "", "")>>)

\* The run on -url ftp://x has ended.
C7_Witness ==
    /\ ~help /\ promURL = <<"f", "t", "p", ":", "/", "/", "x">>
    /\ pc = "done" /\ exitCode = 2

\* The Rules request was sent and failed / was answered.
RulesFailed == calls # <<>> /\ calls[1].op = "Rules" /\ calls[1].res = "error"
RulesListed == calls # <<>> /\ calls[1].op = "Rules" /\ calls[1].res = "ok"

\* C8: when the Rules call fails, getRules yields no queries and the process
\* ends at once with status 2 and one diagnostic line: no rule is parsed, no
\* existence check made, no further request sent, no finding printed.
C8_ListingFailureAborts ==
    RulesFailed =>
        /\ pc = "done" /\ exitCode = 2
        /\ stderr = <<Line("rulesError", "", "")>>
        /\ rules = <<>> /\ cur = 0 /\ pending = <<>>
        /\ checks = <<>> /\ Len(calls) = 1 /\ metrics = <<>>

\* The Rules call failed although the server holds rule groups.
C8_Witness == RulesFailed /\ groups # <<>> /\ pc = "done"

\* What the driver can do next, the server's own changes aside.
DriverStep ==
    \/ GetMetricsError \/ GetMetricsOk \/ MetricExistsCached \/ MetricExistsCall
    \/ SeriesFail \/ SeriesOk \/ RunEnd

\* C9: once the Rules call has been answered the run never ends with a
\* failure status: until it ends the driver always has a next step, and it
\* ends only after the last listed rule, with status 0, whatever was printed.
C9_NeverAborts ==
    RulesListed =>
        /\ rules = getRules(groups)
        /\ exitCode \in {-1, 0}
        /\ (pc = "done") <=> (exitCode = 0)
        /\ pc = "done" => (cur = Len(rules) /\ pending = <<>>)
        /\ pc # "done" => ENABLED DriverStep

\* A run that printed a parse error, a check error and a finding ended with
\* status 0.
C9_Witness ==
    /\ RulesListed /\ pc = "done" /\ exitCode = 0
    /\ Lines("parseError") # <<>>
    /\ Lines("metricError") # <<>>
    /\ Lines("finding") # <<>>

\* C10: the cache is empty when the linter is built, and no step removes an
\* entry or changes its verdict.
C10_CacheOnlyGrows ==
    [][ /\ pc = "main" => metrics' = <<>>
        /\ \A n \in DOMAIN metrics : n \in DOMAIN metrics' /\ metrics'[n] = metrics[n] ]_vars

\* The cache holds both names, one of them written after the other had
\* already been served from the cache.
C10_Witness ==
    /\ DOMAIN metrics = Names
    /\ \E j, k \in DOMAIN checks : j < k /\ ~checks[j].called /\ Resolved(checks[k])

\* The node of tree t at the end of path p (a sequence of child positions).
RECURSIVE NodeAt(_, _)
NodeAt(t, p) == IF p = <<>> THEN t ELSE NodeAt(t.children[Head(p)], Tail(p))

RECURSIVE IsPath(_, _)
IsPath(t, p) ==
    p = <<>> \/ (Head(p) \in DOMAIN t.children /\ IsPath(t.children[Head(p)], Tail(p)))

\* The selector nodes of t that carry a name, as paths.
NamedSelectors(t) ==
    {p \in SeqsUpTo(1..2, MaxNodes) :
        /\ IsPath(t, p)
        /\ NodeAt(t, p).type \in {"VectorSelector", "MatrixSelector"}
        /\ NodeAt(t, p).name # ""}

SelectorNames(t) == {NodeAt(t, p).name : p \in NamedSelectors(t)}

\* C11: getMetrics returns exactly the non-empty names of the vector and
\* matrix selector nodes anywhere in the tree; nothing else contributes.  The
\* same holds of the set run() ranges over in the model of the whole program.
C11_SelectorNamesExact ==
    /\ pc = "returned" => Range(ret) = SelectorNames(expr)
    /\ Inspect(expr) = SelectorNames(expr)

\* getMetrics returned the one name of a tree whose named selector sits under
\* an operator inside a binary expression, beside a selector without a name.
C11_Witness ==
    /\ pc = "returned"
    /\ expr.type = "BinaryExpr"
    /\ expr.children[1].type \in {"SubqueryExpr", "AggregateExpr", "Call"}
    /\ expr.children[1].children[1] = MatrixSelector("http_requests_total")
    /\ expr.children[2] = VectorSelector("")
    /\ ret = <<"http_requests_total">>

\* C12: a name that N >= 1 selectors of the tree carry is in the result of
\* getMetrics exactly once; when all named selectors carry the same name M
\* the result is <<M>>.
C12_NoDuplicates ==
    pc = "returned" =>
        \A M \in Names :
            /\ (\E p \in NamedSelectors(expr) : NodeAt(expr, p).name = M)
                  => Cardinality({i \in DOMAIN ret : ret[i] = M}) = 1
            /\ (NamedSelectors(expr) # {} /\ SelectorNames(expr) = {M}) => ret = <<M>>

\* getMetrics returned <<"up">> for a tree with a vector and a matrix
\* selector that both name "up".
C12_Witness ==
    /\ pc = "returned"
    /\ \E p, q \in NamedSelectors(expr) :
          /\ NodeAt(expr, p) = VectorSelector("up")
          /\ NodeAt(expr, q) = MatrixSelector("up")
    /\ ret = <<"up">>

\* The recording and alerting rules of the listing, as (group, position).
Kept ==
    UNION {{<<g, i>> : i \in {j \in DOMAIN groups[g] :
                                  groups[g][j].kind \in {"recording", "alerting"}}} :
           g \in DOMAIN groups}

\* The place of a kept rule among the kept rules, in listing order.
Rank(p) == Cardinality({q \in Kept : q[1] < p[1] \/ (q[1] = p[1] /\ q[2] <= p[2])})

\* C13: getRules returns the query of every recording or alerting rule and of
\* no other rule, in the order of the groups and of the rules within a group,
\* and reports nothing.  The same holds of the listing run() works on in the
\* model of the whole program.
C13_RulesInListingOrder ==
    /\ pc = "listed" =>
          /\ Len(rules) = Cardinality(Kept)
          /\ \A p \in Kept : rules[Rank(p)] = groups[p[1]][p[2]].query
          /\ stderr = <<>> /\ exitCode = -1
    /\ Len(getRules(groups)) = Cardinality(Kept)
    /\ \A p \in Kept : getRules(groups)[Rank(p)] = groups[p[1]][p[2]].query

\* getRules returned for two groups, the first holding a rule of another kind
\* before a kept one, with different queries in first and second place.
C13_Witness ==
    /\ pc = "listed"
    /\ Len(groups) = 2 /\ Len(groups[1]) = 2 /\ groups[1][1].kind = "other"
    /\ Len(rules) = 3 /\ rules[1] # rules[2] /\ rules[2] # rules[3]

\* One fixed order of the metric names, and the names of a set in that order.
NameOrder == <<"http_requests_total", "up">>
RefOrder(S) == SelectSeq(NameOrder, LAMBDA n : n \in S)

\* On an unchanged server: the names in the cache when rule i is reached.
CacheBefore(i) ==
    {m \in Names \ down : \E j \in 1..(i - 1) : j \notin Malformed /\ m \in MetricsOf(j)}

\* On an unchanged server: what checking metric m of rule i prints.
LinesFor(i, m) ==
    IF m \in down THEN <<Line("metricError", "", m)>>
    ELSE IF m \notin series THEN <<Line("finding", rules[i], m)>>
    ELSE <<>>

\* The lines and the Series calls of rule i in the run that takes the
\* metrics of every rule in NameOrder.
RefBlock(i) ==
    IF i \in Malformed THEN <<Line("parseError", "", "")>>
    ELSE Flatten([k \in DOMAIN RefOrder(MetricsOf(i)) |-> LinesFor(i, RefOrder(MetricsOf(i))[k])])

RefCallBlock(i) == SelectSeq(RefOrder(MetricsOf(i)), LAMBDA m : m \notin CacheBefore(i))

RefStderr == Flatten([i \in DOMAIN rules |-> RefBlock(i)])
RefCallNames == Flatten([i \in DOMAIN rules |-> RefCallBlock(i)])

\* The names of the Series calls of this run, in order.
CallNames == [k \in 1..(Len(calls) - 1) |-> calls[k + 1].name]

\* The number of lines the rules before rule i account for.
Off(i) == Len(Flatten([j \in 1..(i - 1) |-> RefBlock(j)]))

\* C14 as stated: on an unchanged server every run prints the same sequence
\* of lines and sends the same sequence of Series calls, the order of the
\* metrics of one rule included; so every run agrees with the run that takes
\* each rule's metrics in NameOrder.
C14_SameSequenceEveryRun ==
    (pc = "done" /\ RulesListed) => (stderr = RefStderr /\ CallNames = RefCallNames)

\* C14 amended: on an unchanged server every run prints, rule after rule in
\* listing order, the same lines and sends the same Series calls for each
\* rule; only the order within one rule's lines and calls may differ.
C14_SameUpToMetricOrder ==
    (pc = "done" /\ RulesListed) =>
        /\ Len(stderr) = Len(RefStderr)
        /\ \A i \in DOMAIN rules :
              {stderr[k] : k \in (Off(i) + 1)..Off(i + 1)} = Range(RefBlock(i))
        /\ Len(CallNames) = Len(RefCallNames)
        /\ \A i \in DOMAIN rules :
              {calls[k].name : k \in {j \in DOMAIN calls : calls[j].rule = i}}
                  = Range(RefCallBlock(i))
        /\ \A j, k \in DOMAIN calls : j < k => calls[j].rule <= calls[k].rule

\* A finished run whose lines and calls come in another order than those of
\* the run in NameOrder.
C14_Witness ==
    /\ pc = "done" /\ RulesListed
    /\ stderr # RefStderr
    /\ CallNames # RefCallNames

\* The requests that were sent and have not returned.
InFlight == {k \in DOMAIN calls : calls[k].res = "pending"}

\* C15: the driver works on one rule at a time, in listing order, and on one
\* metric at a time.  It moves to the next rule only when every metric of the
\* current one has been through metricExists and no call is in flight; every
\* request, check and finding is made for the current rule; a request is
\* sent only when none is in flight.
C15_StrictlySequential ==
    /\ [](/\ Cardinality(InFlight) <= 1
          /\ (InFlight # {}) <=> (pc \in {"getRules", "series"})
          /\ \A j, k \in DOMAIN calls : j < k => calls[j].rule <= calls[k].rule
          /\ \A j, k \in DOMAIN checks : j < k => checks[j].rule <= checks[k].rule
          /\ \A k \in DOMAIN pending : cur \in DOMAIN rules /\ pending[k] \in MetricsOf(cur))
    /\ [][ /\ cur' # cur =>
                /\ cur' = cur + 1
                /\ pending = <<>> /\ InFlight = {}
                /\ cur >= 1 => \A m \in MetricsOf(cur) : Checked(cur, m)
           /\ Len(calls') > Len(calls) =>
                (InFlight = {} /\ cur' = cur /\ Last(calls').rule = cur)
           /\ Len(checks') > Len(checks) => (cur' = cur /\ Last(checks').rule = cur)
           /\ (Len(stderr') > Len(stderr) /\ Last(stderr').kind = "finding") =>
                (cur' = cur /\ Last(stderr').rule = rules[cur]) ]_vars

\* A Series call is in flight for the second rule after both metrics of the
\* first rule were checked.
C15_Witness ==
    /\ pc = "series" /\ cur = 2
    /\ Cardinality({k \in DOMAIN checks : checks[k].rule = 1}) = 2

\* The malformed rules reached so far, in listing order.
MalformedSoFar == SelectSeq([i \in DOMAIN rules |-> i], LAMBDA i : i \in Malformed /\ i <= cur)

\* C16: every parse error and every failed existence check is printed as
\* exactly one line, the line of a parse error naming the rule and the line
\* of a failed check naming the metric, and every "does not exist" answer
\* still gets its finding.
C16_ErrorLinesNameSubject ==
    /\ Len(Lines("metricError")) = Len(ChecksWith("error"))
    /\ \A k \in DOMAIN Lines("metricError") :
          Lines("metricError")[k].metric = ChecksWith("error")[k].metric
    /\ Len(Lines("parseError")) = Len(MalformedSoFar)
    /\ \A k \in DOMAIN Lines("parseError") :
          Lines("parseError")[k].rule = rules[MalformedSoFar[k]]
    /\ Len(Lines("finding")) = Len(ChecksWith("false"))

\* C17: every cache entry stems from an answered Series call for that very
\* name and holds "the answer was non-empty"; every cached name was extracted
\* from a rule that parsed; and what metricExists returns without error is the
\* cache entry of the name.
C17_CacheFromAnsweredCalls ==
    /\ \A n \in DOMAIN metrics :
          /\ \E k \in SeriesCallsFor(n) :
                calls[k].res \in {"true", "false"} /\ metrics[n] = (calls[k].res = "true")
          /\ \E i \in DOMAIN rules \ Malformed : i <= cur /\ n \in MetricsOf(i)
    /\ \A k \in DOMAIN checks :
          checks[k].res # "error" =>
              /\ checks[k].metric \in DOMAIN metrics
              /\ metrics[checks[k].metric] = (checks[k].res = "true")

\* The cache holds one name as existing and one as missing, and has served a
\* later invocation.
C17_Witness ==
    /\ \E n, m \in DOMAIN metrics : metrics[n] /\ ~metrics[m]
    /\ \E k \in DOMAIN checks : ~checks[k].called

\* C18: when every call to the server returns, the run ends; and no (rule,
\* metric) pair ever gets more than one metricExists invocation or more than
\* one Series call, so a failed call is not tried again for the pair.
C18_TerminatesWithoutRetry ==
    /\ <>(pc = "done")
    /\ [](\A i \in DOMAIN rules : \A m \in Names :
             /\ Cardinality({k \in DOMAIN checks :
                                checks[k].rule = i /\ checks[k].metric = m}) <= 1
             /\ Cardinality({k \in DOMAIN calls :
                                calls[k].op = "Series" /\ calls[k].rule = i /\ calls[k].name = m}) <= 1)

\* A finished run in which a check failed and the next rule naming the metric
\* asked the server again.
C18_Witness ==
    /\ pc = "done" /\ exitCode = 0
    /\ \E j, k \in DOMAIN checks :
          /\ j < k /\ checks[j].metric = checks[k].metric /\ checks[j].rule < checks[k].rule
          /\ checks[j].res = "error" /\ checks[k].called
====
